---- MODULE Spec2Model ----
(***************************************************************************)
(* make_wordcloud (src/wordcloud.py): the greedy word-cloud layout.        *)
(* Words are sorted by weight, and each word is fitted by shrinking its    *)
(* font size until query_integral_image finds a free region of the grey    *)
(* image; the integral image is then recomputed below/right of the         *)
(* position.                                                               *)
(*                                                                         *)
(* Python sequences are 0-based; the sequences here are 1-based, canvas    *)
(* coordinates (rows x, columns y) are 0-based as in the source.           *)
(***************************************************************************)
EXTENDS Integers, Sequences, FiniteSets, TLC

\* ------------------------------------------------------------------ bounds
\* the canvas: height rows, width columns (arguments height, width)
Height == 3
Width == 3
\* at most this many input words
MaxWords == 2
\* raw counts are 0..MaxCount
MaxCount == 1
\* a word's text has 1..MaxWordLen characters
MaxWordLen == 2
\* the margin argument is 0..MaxMargin
MaxMargin == 2
\* a seeded generator's stream of draws repeats after this many draws
RngPeriod == 2

\* ------------------------------------------------------- program constants
\* font_size = 1000 (line 89)
StartFontSize == 1000
\* int(100 * np.log(count + 100)) for a normalised count in [0, 1] is 460 or
\* 461: 100*ln(100) = 460.517..., 100*ln(101) = 461.512..., and it reaches 461
\* exactly when count >= e^4.61 - 100 = 0.48414963...
LogSizeLow == 460
LogSizeHigh == 461
LogThresholdNum == 48414964
LogThresholdDen == 100000000
\* pixel value of fill="white" in a mode "L" image
White == 255
\* integral is np.uint32 (line 85); its entries are at most
\* White * height * width, which stays below 2^32 for every canvas of fewer
\* than 16843009 pixels, so no entry wraps on the canvases checked here

\* ---------------------------------------------------------------- values
Rows == 0 .. (Height - 1)
Cols == 0 .. (Width - 1)
Cells == Rows \X Cols

\* Python's None, as query_integral_image returns it
NoResult == << >>
\* orientation: None (horizontal) or Image.ROTATE_90
Orientations == {"None", "ROTATE_90"}

\* font_path: a font file that does not exist, a font whose glyphs ink their
\* whole bounding box, a font whose glyphs ink only part of it
Fonts == {"missing", "block", "thin"}

VARIABLES
    words,        \* words: the texts, here their lengths in characters
    counts,       \* counts: fractions <<count, 1>> on entry, <<count, max>>
                  \* once normalised
    inds,         \* inds: the sort permutation (line 79), input indices
    margin, ranks_only, font_path,
    seed,         \* the seed of the process-wide generator
    rng,          \* position in the seeded stream
    integral,     \* integral: the integral image
    img_grey,     \* img_grey: the grey image the words are drawn on
    font_sizes, positions, orientations,
    font_size, orientation, box_size, result,
    i,            \* index of the for loop's current word (line 91)
    attempts,     \* iterations of the while loop done for the current word
    pc,           \* position in make_wordcloud
    raised,       \* the exception that ended the call, or "None"
    returned,     \* the values the call handed back: << >> is None
    calls,        \* how many times make_wordcloud was called
    prev          \* the lists the previous call ended with

vars == << words, counts, inds, margin, ranks_only, font_path, seed, rng,
           integral, img_grey, font_sizes, positions, orientations,
           font_size, orientation, box_size, result, i, attempts, pc,
           raised, returned, calls, prev >>

args == << margin, ranks_only, font_path, seed >>
lists == << font_sizes, positions, orientations >>
grid == << integral, img_grey >>
loopvars == << font_size, orientation, box_size, result, i, attempts >>
outcome == << raised, returned >>

\* ------------------------------------------------------------- arithmetic
RECURSIVE SumOver(_, _)
SumOver(f, S) ==
    IF S = {} THEN 0
    ELSE LET c == CHOOSE c \in S : TRUE IN f[c] + SumOver(f, S \ {c})

RECURSIVE MaxOf(_)
MaxOf(s) ==
    IF Len(s) = 1 THEN s[1]
    ELSE LET m == MaxOf(Tail(s)) IN IF s[1] >= m THEN s[1] ELSE m

Min(a, b) == IF a <= b THEN a ELSE b

CeilDiv(a, b) == (a + b - 1) \div b

\* ------------------------------------------------- normalise and sort
\* counts / float(counts.max()) (line 77): each count over the maximum;
\* 0/0 (every count 0) is NaN
Normalize(c) ==
    [k \in 1 .. Len(c) |->
        << c[k][1], MaxOf([j \in 1 .. Len(c) |-> c[j][1]]) >>]

IsNaN(v) == v[2] = 0

\* v < w for two normalised counts (they share the denominator); every
\* comparison with NaN is false
Less(v, w) == ~IsNaN(v) /\ ~IsNaN(w) /\ v[1] < w[1]

\* np.argsort(counts) (line 79): ascending; numpy's default quicksort sorts
\* a short array by insertion, which keeps equal keys in index order
ArgSort(c) ==
    CHOOSE p \in [1 .. Len(c) -> 1 .. Len(c)] :
        /\ \A a, b \in 1 .. Len(c) : a # b => p[a] # p[b]
        /\ \A a, b \in 1 .. Len(c) :
              a < b => \/ Less(c[p[a]], c[p[b]])
                       \/ (~Less(c[p[b]], c[p[a]]) /\ p[a] < p[b])

\* [::-1] (line 79)
Reverse(s) == [k \in 1 .. Len(s) |-> s[Len(s) + 1 - k]]

\* the sort without the reversal: lightest first
SortIndsAscending(c) == ArgSort(c)

\* inds = np.argsort(counts)[::-1] (line 79)
SortInds(c) == Reverse(ArgSort(c))

\* counts[inds], words[inds] (lines 80-81)
Take(s, p) == [k \in 1 .. Len(p) |-> s[p[k]]]

\* int(100 * np.log(count + 100)) (line 94) of a normalised count
LogSize(v) ==
    IF v[1] * LogThresholdDen >= LogThresholdNum * v[2]
    THEN LogSizeHigh ELSE LogSizeLow

\* ------------------------------------------------------------ the glyphs
\* font size units per pixel of glyph height and of advance per character
GlyphScale == 250

\* FreeType takes a pixel size below 1 as 1, so size 0 measures as size 1
GlyphPx(size) == CeilDiv(IF size < 1 THEN 1 ELSE size, GlyphScale)

\* draw.textsize(word) (line 112) under the transposed font of lines
\* 104-110: <<width, height>> in pixels
TextSize(word, size, orient) ==
    IF orient = "None"
    THEN << word * GlyphPx(size), GlyphPx(size) >>
    ELSE << GlyphPx(size), word * GlyphPx(size) >>

\* the pixels draw.text((y, x), word, fill="white") (line 127) paints: the
\* block font fills the box; the thin font inks the box's top row and left
\* column only, which ROTATE_90 (a quarter turn counter-clockwise) turns
\* into its left column and bottom row
Ink(font, x, y, box, orient) ==
    { c \in Cells :
        /\ x <= c[1] /\ c[1] < x + box[2]
        /\ y <= c[2] /\ c[2] < y + box[1]
        /\ font = "thin" =>
              IF orient = "None" THEN c[1] = x \/ c[2] = y
              ELSE c[2] = y \/ c[1] = x + box[2] - 1 }

\* painting with pixel value 1
DrawTextOnes(img, ink) == [c \in Cells |-> IF c \in ink THEN 1 ELSE img[c]]

\* draw.text(..., fill="white") (line 127): the inked pixels become white
DrawText(img, ink) == [c \in Cells |-> IF c \in ink THEN White ELSE img[c]]

\* --------------------------------------------------- the integral image
\* I[r, c], with a lookup above or left of the canvas read as zero
At(I, r, c) == IF r < 0 \/ c < 0 THEN 0 ELSE I[<< r, c >>]

\* the sum of the h x w region with top-left corner (top, left)
RegionSum(I, top, left, h, w) ==
    At(I, top + h - 1, left + w - 1) - At(I, top - 1, left + w - 1)
    - At(I, top + h - 1, left - 1) + At(I, top - 1, left - 1)

\* query_integral_image(integral, size_x, size_y) (called at line 114):
\* the first origin, rows first then columns, whose region sums to zero
query_integral_image(I, size_x, size_y) ==
    LET free == { c \in Cells :
                    /\ c[1] <= Height - size_x
                    /\ c[2] <= Width - size_y
                    /\ RegionSum(I, c[1], c[2], size_x, size_y) = 0 }
    IN IF free = {} THEN NoResult
       ELSE CHOOSE c \in free :
              \A d \in free : c[1] < d[1] \/ (c[1] = d[1] /\ c[2] <= d[2])

\* the query with the box's width taken for its height
FindPlaceTransposed(I, box, m) == query_integral_image(I, box[1] + m, box[2] + m)

\* lines 114-115: the query for the box of draw.textsize, <<width, height>>,
\* with margin added to its height (rows) and to its width (columns)
FindPlace(I, box, m) == query_integral_image(I, box[2] + m, box[1] + m)

\* the position taken as the query returned it
PositionAtOrigin(res, m) == << res[1], res[2] >>

\* x, y = np.array(result) + margin // 2 (line 125)
Position(res, m) == << res[1] + m \div 2, res[2] + m \div 2 >>

\* np.cumsum(np.cumsum(img_array[x:, y:], axis=1), axis=0) (lines 135-136)
PartialIntegral(img, x, y, r, c) ==
    SumOver(img, { d \in Cells : x <= d[1] /\ d[1] <= r
                                 /\ y <= d[2] /\ d[2] <= c })

\* the top border without the corner taken off
TopBorderWithCorner(I, x, y, c) == IF x > 0 THEN I[<< x - 1, c >>] ELSE 0

\* lines 139-144: what row x - 1 of the old integral adds to column c
TopBorder(I, x, y, c) ==
    IF x > 0
    THEN IF y > 0
         THEN I[<< x - 1, c >>] - I[<< x - 1, y - 1 >>]
         ELSE I[<< x - 1, c >>]
    ELSE 0

\* lines 145-146: what column y - 1 of the old integral adds to row r
LeftBorder(I, x, y, r) == IF y > 0 THEN I[<< r, y - 1 >>] ELSE 0

\* the recomputed block never pasted into the integral image
RecomputeIntegralNotPasted(I, img, x, y) == I

\* integral[x:, y:] = partial_integral (line 148)
RecomputeIntegral(I, img, x, y) ==
    [ d \in Cells |->
        IF d[1] >= x /\ d[2] >= y
        THEN PartialIntegral(img, x, y, d[1], d[2])
             + TopBorder(I, x, y, d[2]) + LeftBorder(I, x, y, d[1])
        ELSE I[d] ]

\* ------------------------------------------------------- the generator
\* the draws, counted from the first, at which a first word that starts at
\* the given size has shrunk to the largest size of one-pixel glyphs
FirstFit(start) == ((start - GlyphScale) % (GlyphScale + 1)) + 1

\* streams on which a rotated draw is rare: one in every GlyphScale + 1
\* draws, so that a word can be drawn horizontal at every size from
\* GlyphScale down to 1 and rotated at size 0
RareSeeds ==
    { [n \in 1 .. GlyphScale + 1 |-> n # k] :
        k \in {FirstFit(StartFontSize), FirstFit(LogSizeHigh)} }

\* the process-wide generator of module random yields the stream its seed
\* fixes, whether the caller seeded it (random.seed) or the interpreter did
\* at start-up; a stream is given by its draws, TRUE where random.random() <
\* prefer_horiz, and repeats after as many draws as it lists: every stream
\* of RngPeriod draws, and the streams of rare rotated draws
Seeds == [1 .. RngPeriod -> BOOLEAN] \cup RareSeeds

\* draws that the generator's seed does not fix
DrawsUnseeded == BOOLEAN

\* the outcomes random.random() < prefer_horiz can have (line 104), for
\* 0 < prefer_horiz < 1
Draws == {seed[rng]}

\* the orientation drawn on a word's first attempt only, kept on retries
OrientedOnce(horizontal) ==
    IF attempts = 0 THEN (IF horizontal THEN "None" ELSE "ROTATE_90")
    ELSE orientation

\* lines 104-107: the orientation for a draw
Oriented(horizontal) == IF horizontal THEN "None" ELSE "ROTATE_90"

\* the stream position after k more draws
Advance(k) == ((rng - 1 + k) % Len(seed)) + 1

\* --------------------------------------------------------------- the call
SeqsUpTo(S, n) == UNION { [1 .. k -> S] : k \in 0 .. n }

ZeroImage == [c \in Cells |-> 0]

\* a call of make_wordcloud(words, counts, fname, width, height, font_path,
\* margin, ranks_only, prefer_horiz) (lines 19-20), about to run line 69
Init ==
    /\ words \in SeqsUpTo(1 .. MaxWordLen, MaxWords)
    /\ counts \in [1 .. Len(words) -> (0 .. MaxCount) \X {1}]
    /\ inds = << >>
    /\ margin \in 0 .. MaxMargin
    /\ ranks_only \in BOOLEAN
    /\ font_path \in Fonts
    /\ seed \in Seeds
    /\ rng = 1
    /\ integral = ZeroImage
    /\ img_grey = ZeroImage
    /\ font_sizes = << >> /\ positions = << >> /\ orientations = << >>
    /\ font_size = StartFontSize
    /\ orientation = "None"
    /\ box_size = << 0, 0 >>
    /\ result = NoResult
    /\ i = 1
    /\ attempts = 0
    /\ pc = "start"
    /\ raised = "None"
    /\ returned = << >>
    /\ calls = 1
    /\ prev = << >>

\* lines 69-77 with no word: the message is printed and the call goes on
\* to counts.max(), which raises ValueError on an empty array
EmptyInput ==
    /\ pc = "start"
    /\ Len(counts) = 0
    /\ pc' = "error"
    /\ raised' = "ValueError"
    /\ UNCHANGED << words, counts, inds, args, rng, grid, lists, loopvars,
                    returned, calls, prev >>

\* lines 69-89: normalise, sort, create the image and the integral image
Setup ==
    /\ pc = "start"
    /\ Len(counts) > 0
    /\ LET normalized == Normalize(counts)
           sorted == SortInds(normalized)
       IN /\ inds' = sorted
          /\ counts' = Take(normalized, sorted)
          /\ words' = Take(words, sorted)
    /\ integral' = ZeroImage
    /\ img_grey' = ZeroImage
    /\ font_sizes' = << >> /\ positions' = << >> /\ orientations' = << >>
    /\ font_size' = StartFontSize
    /\ i' = 1
    /\ pc' = "for"
    /\ UNCHANGED << args, rng, orientation, box_size, result, attempts,
                    outcome, calls, prev >>

\* line 91, no word left: the loop ends
ForEnd ==
    /\ pc = "for"
    /\ i > Len(words)
    /\ pc' = "render"
    /\ UNCHANGED << words, counts, inds, args, rng, grid, lists, loopvars,
                    outcome, calls, prev >>

\* the next word's font size set without the ceiling of the sizes before
ForWordNoCeiling ==
    /\ pc = "for"
    /\ i <= Len(words)
    /\ ranks_only \/ ~IsNaN(counts[i])
    /\ font_size' = IF ranks_only THEN StartFontSize ELSE LogSize(counts[i])
    /\ attempts' = 0
    /\ pc' = "while"
    /\ UNCHANGED << words, counts, inds, args, rng, grid, lists, orientation,
                    box_size, result, i, outcome, calls, prev >>

\* lines 91-94: the next word, and its first font size
ForWord ==
    /\ pc = "for"
    /\ i <= Len(words)
    /\ ranks_only \/ ~IsNaN(counts[i])
    /\ font_size' = IF ranks_only THEN font_size
                    ELSE Min(font_size, LogSize(counts[i]))
    /\ attempts' = 0
    /\ pc' = "while"
    /\ UNCHANGED << words, counts, inds, args, rng, grid, lists, orientation,
                    box_size, result, i, outcome, calls, prev >>

\* line 94 on a NaN count (every count was 0): int() raises ValueError
SizeOfNaN ==
    /\ pc = "for"
    /\ i <= Len(words)
    /\ ~ranks_only /\ IsNaN(counts[i])
    /\ pc' = "error"
    /\ raised' = "ValueError"
    /\ UNCHANGED << words, counts, inds, args, rng, grid, lists, loopvars,
                    returned, calls, prev >>

\* lines 96-102: the font file cannot be opened
FontNotFound ==
    /\ pc = "while"
    /\ font_path = "missing"
    /\ pc' = "error"
    /\ raised' = "IOError"
    /\ UNCHANGED << words, counts, inds, args, rng, grid, lists, loopvars,
                    returned, calls, prev >>

\* a failed attempt that leaves the font size as it is
SmallerKept(size) == size

\* font_size -= 1 (line 119)
Smaller(size) == size - 1

\* lines 95-119, one iteration of the while loop: draw the orientation,
\* measure the word, query the integral image, and either leave the loop
\* (a position was found, or the font size is 0) or shrink the font
TrySize ==
    /\ pc = "while"
    /\ font_path # "missing"
    /\ \E horizontal \in Draws :
          LET o == Oriented(horizontal)
              box == TextSize(words[i], font_size, o)
              res == FindPlace(integral, box, margin)
          IN /\ orientation' = o
             /\ box_size' = box
             /\ result' = res
             /\ IF res # NoResult \/ font_size = 0
                THEN pc' = "after_while" /\ font_size' = font_size
                ELSE pc' = "while" /\ font_size' = Smaller(font_size)
    /\ rng' = Advance(1)
    /\ attempts' = attempts + 1
    /\ UNCHANGED << words, counts, inds, args, grid, lists, i, outcome,
                    calls, prev >>

\* font size 0 skipping the word only: continue for break
ExhaustedSkipsWord ==
    /\ pc = "after_while"
    /\ font_size = 0
    /\ i' = i + 1
    /\ pc' = "for"
    /\ UNCHANGED << words, counts, inds, args, rng, grid, lists, font_size,
                    orientation, box_size, result, attempts, outcome, calls,
                    prev >>

\* font size 0 with the word drawn before the test of line 121
ExhaustedDrawsFirst ==
    /\ pc = "after_while"
    /\ font_size = 0
    /\ IF result = NoResult THEN UNCHANGED grid
       ELSE LET x == result[1] + margin \div 2
                y == result[2] + margin \div 2
                drawn == DrawText(img_grey,
                                  Ink(font_path, x, y, box_size, orientation))
            IN /\ img_grey' = drawn
               /\ integral' = [d \in Cells |->
                                 SumOver(drawn, { e \in Cells : e[1] <= d[1]
                                                     /\ e[2] <= d[2] })]
    /\ pc' = "render"
    /\ UNCHANGED << words, counts, inds, args, rng, lists, loopvars,
                    outcome, calls, prev >>

\* font size 0 raising an error: raise for break
ExhaustedRaises ==
    /\ pc = "after_while"
    /\ font_size = 0
    /\ pc' = "error"
    /\ raised' = "ValueError"
    /\ UNCHANGED << words, counts, inds, args, rng, grid, lists, loopvars,
                    returned, calls, prev >>

\* lines 121-123: the font size is 0, the layout stops
Exhausted ==
    /\ pc = "after_while"
    /\ font_size = 0
    /\ pc' = "render"
    /\ UNCHANGED << words, counts, inds, args, rng, grid, lists, loopvars,
                    outcome, calls, prev >>

\* the word recorded whenever a position was found, at font size 0 too
PlacesIfFound == result # NoResult

\* line 121 not taken: the while loop ended above font size 0
Places == font_size # 0

\* lines 125-148: draw the word at the position found, record it, and
\* recompute the integral image below and right of the position
Place ==
    /\ pc = "after_while"
    /\ Places
    /\ LET x == Position(result, margin)[1]
           y == Position(result, margin)[2]
           drawn == DrawText(img_grey,
                             Ink(font_path, x, y, box_size, orientation))
       IN /\ img_grey' = drawn
          /\ positions' = Append(positions, << x, y >>)
          /\ orientations' = Append(orientations, orientation)
          /\ font_sizes' = Append(font_sizes, font_size)
          /\ integral' = RecomputeIntegral(integral, drawn, x, y)
    /\ i' = i + 1
    /\ pc' = "for"
    /\ UNCHANGED << words, counts, inds, args, rng, font_size, orientation,
                    box_size, result, attempts, outcome, calls, prev >>

\* lines 150-163: the placed words are drawn again in colour, one
\* random.randint each, and the image is shown and saved; the call
\* returns None
Render ==
    /\ pc = "render"
    /\ rng' = Advance(Min(Len(words), Len(font_sizes)))
    /\ pc' = "done"
    /\ returned' = << >>
    /\ UNCHANGED << words, counts, inds, args, grid, lists, loopvars,
                    raised, calls, prev >>

Next ==
    \/ EmptyInput
    \/ Setup
    \/ ForEnd
    \/ ForWord
    \/ SizeOfNaN
    \/ FontNotFound
    \/ TrySize
    \/ Exhausted
    \/ Place
    \/ Render

Spec == Init /\ [][Next]_vars

\* the interpreter runs the call's next statement whenever there is one
SpecFair == Init /\ [][Next]_vars /\ WF_vars(Next)

\* the caller's arrays: the call rebinds its local names words and counts
\* (lines 77-81) and leaves the arrays it was given as they were
Unsorted(s) == [k \in 1 .. Len(s) |-> s[CHOOSE j \in 1 .. Len(s) : inds[j] = k]]

\* the caller seeds the generator as before the first call and calls
\* make_wordcloud again with the same arguments
Rerun ==
    /\ pc = "done"
    /\ calls = 1
    /\ calls' = 2
    /\ prev' = << words, font_sizes, positions, orientations >>
    /\ words' = Unsorted(words)
    /\ counts' = [k \in 1 .. Len(counts) |-> << Unsorted(counts)[k][1], 1 >>]
    /\ inds' = << >>
    /\ rng' = 1
    /\ integral' = ZeroImage
    /\ img_grey' = ZeroImage
    /\ font_sizes' = << >> /\ positions' = << >> /\ orientations' = << >>
    /\ font_size' = StartFontSize
    /\ orientation' = "None"
    /\ box_size' = << 0, 0 >>
    /\ result' = NoResult
    /\ i' = 1
    /\ attempts' = 0
    /\ pc' = "start"
    /\ returned' = << >>
    /\ UNCHANGED << args, raised >>

NextRerun == Next \/ Rerun

SpecRerun == Init /\ [][NextRerun]_vars

\* ------------------------------------------------------------ the claims
\* the k-th placement's glyph box: the cells from its position over the
\* box of its word at the recorded font size and orientation
PlacedBox(k) ==
    LET box == TextSize(words[k], font_sizes[k], orientations[k])
    IN { c \in (0 .. Height + Width) \X (0 .. Height + Width) :
           /\ positions[k][1] <= c[1] /\ c[1] < positions[k][1] + box[2]
           /\ positions[k][2] <= c[2] /\ c[2] < positions[k][2] + box[1] }

\* the pixels the k-th placement painted
PlacedInk(k) ==
    Ink(font_path, positions[k][1], positions[k][2],
        TextSize(words[k], font_sizes[k], orientations[k]), orientations[k])

Placed == 1 .. Len(positions)

\* C1 as stated: any two placed glyph boxes have an empty intersection.
C1_BoxesDisjoint ==
    \A k, l \in Placed : k < l => PlacedBox(k) \cap PlacedBox(l) = {}

\* C1 amended: the glyph box of a placed word holds no pixel that an earlier
\* placed word painted, so the painted pixels of any two words are disjoint.
C1_BoxesFreeOfEarlierInk ==
    \A k, l \in Placed : k < l => PlacedInk(k) \cap PlacedBox(l) = {}

\* C1 witness: two words placed, the second inside the box of the first
C1_Witness ==
    /\ Len(positions) = 2
    /\ PlacedBox(1) \cap PlacedBox(2) # {}

\* the exact inclusive prefix sum of the grey image at cell d
PrefixSum(img, d) ==
    SumOver(img, { e \in Cells : e[1] <= d[1] /\ e[2] <= d[2] })

\* C2: the integral image is the exact 2D inclusive prefix sum of the grey
\* image (the occupancy mask the query reads) at every cell, initially and
\* after every recomputation that follows a placement at any (x, y).
C2_IntegralIsPrefixSum ==
    \A d \in Cells : integral[d] = PrefixSum(img_grey, d)

\* C2 witness: a placement at x > 0 and y > 0, below and right of pixels
\* painted before, has been pasted in
C2_Witness ==
    /\ Len(positions) >= 1
    /\ positions[Len(positions)][1] > 0
    /\ positions[Len(positions)][2] > 0
    /\ integral[<< positions[Len(positions)][1] - 1,
                   positions[Len(positions)][2] - 1 >>] > 0
    /\ pc = "for"

\* C3: the recorded font sizes never increase along the placement order,
\* with ranks_only or without.
C3_FontSizesNonIncreasing ==
    \A k, l \in Placed : k < l => font_sizes[k] >= font_sizes[l]

\* C3 witness: a second word placed at a smaller size than the first
C3_Witness ==
    /\ Len(font_sizes) = 2
    /\ font_sizes[1] > font_sizes[2]

\* the for loop of line 91 attempts words[1], words[2], ... in this order
Sorted == pc # "start" /\ pc # "error"

\* v and w are the same weight
SameWeight(v, w) == ~Less(v, w) /\ ~Less(w, v)

\* C4 as stated: the attempt order is weight-descending and two words of
\* equal weight are attempted in input order, the smaller input index first.
C4_StableDescending ==
    Sorted =>
        \A k, l \in 1 .. Len(words) :
            k < l => /\ ~Less(counts[k], counts[l])
                     /\ SameWeight(counts[k], counts[l]) => inds[k] < inds[l]

\* C4 amended: the attempt order is weight-descending (no word is attempted
\* before a heavier one), and two words of equal weight are attempted in
\* reverse input order, the larger input index first, for the short word
\* lists that argsort sorts by insertion.
C4_DescendingTiesReversed ==
    Sorted =>
        \A k, l \in 1 .. Len(words) :
            k < l => /\ ~Less(counts[k], counts[l])
                     /\ SameWeight(counts[k], counts[l]) => inds[k] > inds[l]

\* C4 witness: two words of equal weight have been sorted
C4_Witness ==
    /\ pc = "for"
    /\ Len(words) = 2
    /\ SameWeight(counts[1], counts[2])
    /\ inds = << 2, 1 >>

\* the layout stopped at a word that found no place down to font size 0
Failed == font_size = 0 /\ pc \in {"render", "done", "error"}

\* C5: when a word finds no position down to font size 0 the layout stops
\* at that word: the next step goes to the render pass with nothing
\* recorded for it, the words recorded are exactly those before it in the
\* attempt order, and from then on no word is attempted or recorded.
C5_StopsAtFailingWord ==
    [][ /\ (pc = "after_while" /\ font_size = 0) =>
              /\ pc' = "render"
              /\ i' = i /\ attempts' = attempts
              /\ UNCHANGED << lists, grid >>
              /\ Len(positions) = i - 1
        /\ (pc \in {"render", "done"} /\ calls' = calls) =>
              /\ pc' = "done"
              /\ i' = i /\ attempts' = attempts
              /\ UNCHANGED << lists, grid >> ]_vars

\* C5 witness: the first of two words found no position, the call ended
\* and the second word was never attempted
C5_Witness ==
    /\ pc = "done"
    /\ font_size = 0 /\ result = NoResult
    /\ Len(words) = 2 /\ i = 1
    /\ positions = << >>

\* C6 as stated: a layout that ends by canvas exhaustion raises nothing and
\* hands back, with the placements, the count of dropped words, the number
\* of input words minus the number of placements.
C6_ReportsDroppedCount ==
    (font_size = 0 /\ pc = "done") =>
        /\ raised = "None"
        /\ Len(returned) > 0
        /\ returned[Len(returned)] = Len(words) - Len(positions)

\* C6 amended: a layout that ends by canvas exhaustion raises nothing and
\* ends with the three lists holding the placements made before the failing
\* word, at least one word short of the input; the call hands back nothing
\* (None), so the number of dropped words is only implied by the lists; for
\* a single word that does not fit the lists are empty.
C6_PartialListsNoCount ==
    Failed =>
        /\ pc # "error" /\ raised = "None"
        /\ returned = << >>
        /\ Len(positions) = i - 1
        /\ Len(font_sizes) = i - 1
        /\ Len(orientations) = i - 1
        /\ Len(positions) < Len(words)
        /\ Len(words) = 1 => positions = << >>

\* C6 witness: a single word too large for the canvas at every size, at the
\* end of the call
C6_Witness ==
    /\ pc = "done"
    /\ font_size = 0 /\ result = NoResult
    /\ Len(words) = 1
    /\ positions = << >>

\* C7: a call with zero words raises nothing and ends with an empty layout.
C7_EmptyInputNotFatal ==
    Len(words) = 0 =>
        /\ pc # "error" /\ raised = "None"
        /\ positions = << >>

\* C8: every recorded placement lies inside the canvas, for every margin.
C8_InsideCanvas ==
    \A k \in Placed :
        LET box == TextSize(words[k], font_sizes[k], orientations[k])
        IN /\ 0 <= positions[k][1]
           /\ 0 <= positions[k][2]
           /\ positions[k][1] + box[2] <= Height
           /\ positions[k][2] + box[1] <= Width

\* C8 witness: a single word that fits was placed, off the canvas's edge by
\* the margin's half, and the call ended with that one placement
C8_Witness ==
    /\ pc = "done"
    /\ Len(words) = 1
    /\ Len(positions) = 1
    /\ margin = 2
    /\ positions[1] = << 1, 1 >>

C10_OrientationHeld ==
    [][ /\ (attempts > 0 /\ attempts' = attempts + 1) =>
              orientation' = orientation
        /\ Len(orientations') = Len(orientations) + 1 =>
              orientations'[Len(orientations')] = orientation ]_vars

\* C10 amended: every size attempt of a word, the first and each shrink
\* retry, draws the orientation anew from the generator, so it can change
\* between retries; the orientation recorded for a placed word is the one
\* drawn in the attempt that found its position, the one its box was
\* measured with.
C10_OrientationPerAttempt ==
    [][ /\ attempts' = attempts + 1 =>
              /\ orientation' = IF seed[rng] THEN "None" ELSE "ROTATE_90"
              /\ rng' # rng \/ Len(seed) = 1
        /\ Len(orientations') = Len(orientations) + 1 =>
              /\ orientations'[Len(orientations')] = orientation
              /\ box_size = TextSize(words[i], font_size, orientation) ]_vars

\* C10 witness: a word was placed on a retry whose orientation differs from
\* that of the attempt before it
C10_Witness ==
    /\ Len(orientations) >= 1
    /\ pc = "for"
    /\ attempts >= 2
    /\ seed[Advance(2 * RngPeriod - 2)] # seed[Advance(RngPeriod - 1)]
    /\ orientations[Len(orientations)] = orientation

\* C11 as stated: the layout only ever stops in a terminal state of the
\* layout, Done (all words attempted) or Terminated (canvas exhausted).
C11_StopsOnlyWhenDone == (~ENABLED Next) => pc = "done"

\* C11 amended: every failed size attempt lowers the font size by exactly
\* one, the font size never goes below 0, so a word's shrink loop ends after
\* at most StartFontSize + 1 attempts, and the call eventually ends: with
\* all words attempted, with the canvas exhausted, or with the exception it
\* raised (ValueError for no words or for counts that are all 0 in weighted
\* mode, IOError for a font file that cannot be opened).
C11_ShrinksAndEnds ==
    /\ [][ /\ (pc = "while" /\ pc' = "while") =>
                 /\ font_size' = font_size - 1
                 /\ attempts' = attempts + 1
           /\ font_size' >= 0
           /\ attempts' <= StartFontSize + 1 ]_vars
    /\ <>(pc \in {"done", "error"})

\* C11 witness: the call ended after a word was shrunk to font size 0 and
\* an earlier word was placed
C11_Witness ==
    /\ pc = "done"
    /\ font_size = 0
    /\ Len(positions) >= 1
    /\ attempts > 1

\* the rectangles <<top, left, h, w>> that lie inside the k-th placed box
SubRegions(k) ==
    { r \in Rows \X Cols \X (1 .. Height) \X (1 .. Width) :
        /\ r[1] + r[3] <= Height
        /\ r[2] + r[4] <= Width
        /\ \A c \in Cells :
              (r[1] <= c[1] /\ c[1] < r[1] + r[3]
               /\ r[2] <= c[2] /\ c[2] < r[2] + r[4]) => c \in PlacedBox(k) }

\* the cells of the rectangle r that some placed word painted
PaintedIn(r) ==
    { c \in Cells :
        /\ r[1] <= c[1] /\ c[1] < r[1] + r[3]
        /\ r[2] <= c[2] /\ c[2] < r[2] + r[4]
        /\ \E k \in Placed : c \in PlacedInk(k) }

\* C12 as stated: the integral-image sum over any sub-region inside a placed
\* box is the sub-region's area, every cell of the box counting 1.
C12_SumIsArea ==
    pc = "for" =>
        \A k \in Placed : \A r \in SubRegions(k) :
            RegionSum(integral, r[1], r[2], r[3], r[4]) = r[3] * r[4]

\* C12 amended: the integral-image sum over any sub-region inside a placed
\* box is 255 (the pixel value of white) times the number of its pixels that
\* placed words painted; that is 255 times its area only where the glyphs
\* fill the sub-region.
C12_SumIsPaintedTimesWhite ==
    pc = "for" =>
        \A k \in Placed : \A r \in SubRegions(k) :
            RegionSum(integral, r[1], r[2], r[3], r[4])
                = White * Cardinality(PaintedIn(r))

\* C12 witness: a placed box of more than one pixel that its glyphs did not
\* fill, at x > 0 and y > 0
C12_Witness ==
    /\ pc = "for"
    /\ \E k \in Placed :
          /\ positions[k][1] > 0 /\ positions[k][2] > 0
          /\ \E r \in SubRegions(k) :
                /\ r[3] * r[4] > 1
                /\ Cardinality(PaintedIn(r)) < r[3] * r[4]
                /\ Cardinality(PaintedIn(r)) > 0

\* C13: once normalised, every weight lies in [0, 1], also when all counts
\* are 0, and the weights are ordered as the counts were.
C13_NormalizedInUnitInterval ==
    (pc # "start" /\ Len(counts) > 0) =>
        /\ \A k \in 1 .. Len(counts) :
              /\ counts[k][2] > 0
              /\ 0 <= counts[k][1] /\ counts[k][1] <= counts[k][2]
        /\ \A k, l \in 1 .. Len(counts) :
              counts[k][1] < counts[l][1] <=> Less(counts[k], counts[l])

\* the ceiling a word starts from: the size the word before it was placed
\* at, the starting size for the first word
Ceiling ==
    IF Len(font_sizes) = 0 THEN StartFontSize
    ELSE font_sizes[Len(font_sizes)]

\* C14: the first size tried for a word is the smaller of the ceiling and
\* the size of its weight in weighted mode, the size of a weight never
\* falling as the weight rises, and is the ceiling itself in rank-only mode.
C14_FirstSize ==
    [][ (pc = "for" /\ pc' = "while") =>
           /\ font_size' = IF ranks_only THEN Ceiling
                           ELSE Min(Ceiling, LogSize(counts[i]))
           /\ \A k, l \in 1 .. Len(counts) :
                 ~Less(counts[k], counts[l]) =>
                     LogSize(counts[k]) >= LogSize(counts[l]) ]_vars

\* C14 witness: in weighted mode the second word starts below the size the
\* first was placed at, at the size of its own smaller weight
C14_Witness ==
    /\ pc = "while" /\ attempts = 0
    /\ ~ranks_only
    /\ i = 2
    /\ font_sizes = << LogSizeHigh >>
    /\ font_size = LogSizeLow

\* C15: the grey image and the integral image change only in the step that
\* records a placement; a failed attempt and the stop at font size 0 leave
\* both as they were.
C15_GridChangesOnlyOnPlacement ==
    [][ \/ UNCHANGED grid
        \/ /\ pc = "after_while"
           /\ font_size # 0 /\ result # NoResult
           /\ Len(positions') = Len(positions) + 1 ]_vars

\* C15 witness: a word was shrunk to font size 0 on a canvas that holds a
\* placed word, and the layout stopped
C15_Witness ==
    /\ pc = "render"
    /\ font_size = 0
    /\ Len(positions) >= 1
    /\ \E c \in Cells : img_grey[c] # 0

\* the k-th placed box widened by t rows above, l columns left, b rows
\* below and r columns right
Inflated(k, t, l, b, r) ==
    LET box == TextSize(words[k], font_sizes[k], orientations[k])
    IN { c \in (0 - MaxMargin - 1 .. Height + MaxMargin + 1)
               \X (0 - MaxMargin - 1 .. Width + MaxMargin + 1) :
           /\ positions[k][1] - t <= c[1]
           /\ c[1] < positions[k][1] + box[2] + b
           /\ positions[k][2] - l <= c[2]
           /\ c[2] < positions[k][2] + box[1] + r }

\* C16 as stated: the region queried for a word is its glyph box widened by
\* the margin on each of the four sides, so it lies on the canvas and holds
\* no pixel painted before.
C16_MarginOnEachSide ==
    \A k \in Placed :
        /\ Inflated(k, margin, margin, margin, margin) \subseteq Cells
        /\ \A j \in Placed :
              j < k => PlacedInk(j)
                       \cap Inflated(k, margin, margin, margin, margin) = {}

\* C16 amended: the region queried for a word is its glyph box widened by
\* margin in all per axis: margin // 2 rows above and columns left of the
\* box, margin - margin // 2 rows below and columns right of it; that
\* region lies on the canvas and holds no pixel painted before.
C16_MarginSplit ==
    \A k \in Placed :
        LET near == margin \div 2
            far == margin - margin \div 2
        IN /\ Inflated(k, near, near, far, far) \subseteq Cells
           /\ \A j \in Placed :
                 j < k => PlacedInk(j)
                          \cap Inflated(k, near, near, far, far) = {}

\* C16 witness: with margin 1 a second word was placed right beside the
\* pixels of the first
C16_Witness ==
    /\ margin = 1
    /\ Len(positions) = 2
    /\ PlacedInk(1) \cap Inflated(2, 1, 1, 0, 0) # {}

\* C17: the three lists have one length k, at most the number of words; the
\* word in turn is always word k + 1 of the sorted order, so entry j was
\* recorded for words[j], whose glyphs are what the grey image shows at
\* positions[j]; so the render pass, which pairs the lists with words, draws
\* each placed word with its own entries, also after an early stop.
C17_ListsAlignedWithWords ==
    /\ Len(font_sizes) = Len(positions)
    /\ Len(orientations) = Len(positions)
    /\ Len(positions) <= Len(words)
    /\ Len(positions) = i - 1
    /\ \A c \in Cells :
          img_grey[c] # 0 <=> \E j \in Placed : c \in PlacedInk(j)

\* C17 witness: the call ended early with one of two different words placed
C17_Witness ==
    /\ pc = "done"
    /\ font_size = 0
    /\ Len(words) = 2 /\ words[1] # words[2]
    /\ Len(positions) = 1

\* C18: every recorded font size is at least 1; when the while loop ends at
\* font size 0 nothing is recorded and the layout stops, also when the
\* query returned a position at size 0.
C18_NoPlacementAtSizeZero ==
    /\ \A k \in Placed : font_sizes[k] >= 1
    /\ (font_size = 0 /\ pc \in {"render", "done"}) =>
          Len(positions) = i - 1

\* C18 witness: the query returned a position at font size 0 and the layout
\* stopped without recording the word
C18_Witness ==
    /\ pc = "done"
    /\ font_size = 0
    /\ result # NoResult
    /\ Len(positions) = i - 1

====
